---- MODULE Spec2Model ----
(***************************************************************************)
(* The asynchronous shared-memory scheduler of dask/async.py:              *)
(* start_state_from_dask, fire_task, execute_task, finish_task,            *)
(* release_data and the seeding, main and drain loops of get_async.        *)
(*                                                                         *)
(* Keys are named by their rank in order(dsk), so keyorder is the identity *)
(* on the key names; Init ranges over every graph on a subset of those     *)
(* names, which covers every pair (graph, total priority order) up to      *)
(* renaming.  A name a task refers to that is not a key of the graph is a  *)
(* reference to an absent key.                                             *)
(* get_async is called with cache=None, raise_on_exception=False and a     *)
(* fresh, empty queue.                                                     *)
(***************************************************************************)
EXTENDS Integers, Sequences, FiniteSets, TLC

\* Number of key names; a graph has some of them as its keys.
NumKeys == 3
\* Largest num_workers passed to get_async.
MaxWorkers == 2

Keys == 1..NumKeys

VARIABLES
    dsk,          \* the graph: key -> entry
    results,      \* set(flatten(result)): the requested output keys
    num_workers,  \* the num_workers argument
    rerun_exceptions_locally,
    state,        \* the scheduler state dictionary
    queue,        \* completion records put by workers, not yet taken
    pool,         \* keys submitted through apply_async, still executing
    submitted,    \* the keys passed to apply_async, in call order
    pc,           \* position of the coordinator inside get_async
    readied_at,   \* history: key -> number of finished tasks when it was
                  \* put on state['ready'] (0: by start_state_from_dask)
    fired_at      \* history: key -> number of finished tasks when fire_task
                  \* popped it

vars == <<dsk, results, num_workers, rerun_exceptions_locally, state, queue,
          pool, submitted, pc, readied_at, fired_at>>

----------------------------------------------------------------------------
\* The graph and what dask.core and dask.order say about it.

\* An entry is a task tuple (task = TRUE) mentioning the names in refs, plain
\* data (task = FALSE, refs = {}) or a non-task hashable value that is a name
\* (task = FALSE, refs = {that name}).
Entries ==
    {[task |-> TRUE, refs |-> a] : a \in SUBSET Keys}
      \cup {[task |-> FALSE, refs |-> {}]}
      \cup {[task |-> FALSE, refs |-> {x}] : x \in Keys}

istask(v) == v.task

\* Only the names that are keys of the graph count as dependencies.
get_dependencies(d, k) == d[k].refs \cap DOMAIN d

reverse_dict(deps) == [a \in DOMAIN deps |-> {b \in DOMAIN deps : a \in deps[b]}]

keyorder(k) == k

\* sorted with the order reversed.
RECURSIVE sorted_descending(_)
sorted_descending(S) ==
    IF S = {} THEN <<>>
    ELSE LET m == CHOOSE x \in S : \A y \in S : keyorder(x) >= keyorder(y)
         IN  <<m>> \o sorted_descending(S \ {m})

RECURSIVE sorted(_)
sorted(S) ==
    IF S = {} THEN <<>>
    ELSE LET m == CHOOSE x \in S : \A y \in S : keyorder(x) <= keyorder(y)
         IN  <<m>> \o sorted(S \ {m})

----------------------------------------------------------------------------
\* Python dictionary and exception helpers.

Del(f, k) == [x \in DOMAIN f \ {k} |-> f[x]]

Put(f, k, v) == [x \in DOMAIN f \cup {k} |-> IF x = k THEN v ELSE f[x]]

\* state.exc records the exception raised while the state was being mutated
\* ("none" when there is none); the statements after a raise are not executed.
Raise(st, e) == [st EXCEPT !.exc = e]

Range(s) == {s[i] : i \in DOMAIN s}

----------------------------------------------------------------------------
\* start_state_from_dask

\* "not istask(v) and (not ishashable(v) or v not in dsk)"
data_keys(d) ==
    {k \in DOMAIN d : ~istask(d[k]) /\ d[k].refs \cap DOMAIN d = {}}

\* start_state_from_dask building waiting_data from the keys of waiting0 only,
\* so that the literal keys get no entry.
start_state_no_waiting_data_for_literals(d) ==
    LET dependencies == [k \in DOMAIN d |-> get_dependencies(d, k)]
        dependents   == reverse_dict(dependencies)
        waiting0     == [k \in DOMAIN d \ data_keys(d) |->
                            dependencies[k] \ data_keys(d)]
        ready_set    == {k \in DOMAIN waiting0 : waiting0[k] = {}}
    IN  [dependencies |-> dependencies,
         dependents   |-> dependents,
         waiting      |-> [k \in {x \in DOMAIN waiting0 : waiting0[x] # {}} |->
                              waiting0[k]],
         waiting_data |-> [k \in {x \in DOMAIN waiting0 : dependents[x] # {}} |->
                              dependents[k]],
         cache        |-> [k \in data_keys(d) |-> "data"],
         ready        |-> sorted(ready_set),
         ready_set    |-> ready_set,
         running      |-> {},
         finished     |-> {},
         released     |-> {},
         exc          |-> "none"]

\* start_state_from_dask without line 188, which drops the ready keys from
\* waiting.
start_state_keeps_ready_waiting(d) ==
    LET dependencies == [k \in DOMAIN d |-> get_dependencies(d, k)]
        dependents   == reverse_dict(dependencies)
        waiting0     == [k \in DOMAIN d \ data_keys(d) |->
                            dependencies[k] \ data_keys(d)]
        ready_set    == {k \in DOMAIN waiting0 : waiting0[k] = {}}
    IN  [dependencies |-> dependencies,
         dependents   |-> dependents,
         waiting      |-> waiting0,
         waiting_data |-> [k \in {x \in DOMAIN d : dependents[x] # {}} |->
                              dependents[k]],
         cache        |-> [k \in data_keys(d) |-> "data"],
         ready        |-> sorted(ready_set),
         ready_set    |-> ready_set,
         running      |-> {},
         finished     |-> {},
         released     |-> {},
         exc          |-> "none"]

start_state_from_dask(d) ==
    LET dependencies == [k \in DOMAIN d |-> get_dependencies(d, k)]
        dependents   == reverse_dict(dependencies)
        waiting0     == [k \in DOMAIN d \ data_keys(d) |->
                            dependencies[k] \ data_keys(d)]
        ready_set    == {k \in DOMAIN waiting0 : waiting0[k] = {}}
    IN  [dependencies |-> dependencies,
         dependents   |-> dependents,
         waiting      |-> [k \in {x \in DOMAIN waiting0 : waiting0[x] # {}} |->
                              waiting0[k]],
         waiting_data |-> [k \in {x \in DOMAIN d : dependents[x] # {}} |->
                              dependents[k]],
         cache        |-> [k \in data_keys(d) |-> "data"],
         ready        |-> sorted(ready_set),
         ready_set    |-> ready_set,
         running      |-> {},
         finished     |-> {},
         released     |-> {},
         exc          |-> "none"]

----------------------------------------------------------------------------
\* release_data (delete=True)

\* release_data with delete=False: the value stays in cache.
release_data_keeps_value(key, st) ==
    IF key \in DOMAIN st.waiting_data /\ st.waiting_data[key] # {}
    THEN Raise(st, "AssertionError")
    ELSE [st EXCEPT !.waiting_data = Del(st.waiting_data, key),
                    !.released = st.released \cup {key}]

release_data(key, st) ==
    IF key \in DOMAIN st.waiting_data /\ st.waiting_data[key] # {}
    THEN Raise(st, "AssertionError")
    ELSE LET s1 == [st EXCEPT !.waiting_data = Del(st.waiting_data, key),
                              !.released = st.released \cup {key}]
         IN  IF key \in DOMAIN s1.cache
             THEN [s1 EXCEPT !.cache = Del(s1.cache, key)]
             ELSE Raise(s1, "KeyError")

----------------------------------------------------------------------------
\* finish_task

\* promote_step with "ready.append(dep)" left out.
promote_step_no_append(dep, key, st) ==
    IF dep \notin DOMAIN st.waiting \/ key \notin st.waiting[dep]
    THEN Raise(st, "KeyError")
    ELSE LET s == st.waiting[dep] \ {key}
         IN  IF s = {}
             THEN [st EXCEPT !.waiting = Del(st.waiting, dep),
                             !.ready_set = st.ready_set \cup {dep}]
             ELSE [st EXCEPT !.waiting[dep] = s]

\* promote_step with the test "if not s" left out.
promote_step_always(dep, key, st) ==
    IF dep \notin DOMAIN st.waiting \/ key \notin st.waiting[dep]
    THEN Raise(st, "KeyError")
    ELSE [st EXCEPT !.waiting = Del(st.waiting, dep),
                    !.ready_set = st.ready_set \cup {dep},
                    !.ready = Append(st.ready, dep)]

\* promote_step with "del state['waiting'][dep]" left out.
promote_step_keeps_waiting(dep, key, st) ==
    IF dep \notin DOMAIN st.waiting \/ key \notin st.waiting[dep]
    THEN Raise(st, "KeyError")
    ELSE LET s == st.waiting[dep] \ {key}
         IN  IF s = {}
             THEN [st EXCEPT !.waiting[dep] = s,
                             !.ready_set = st.ready_set \cup {dep},
                             !.ready = Append(st.ready, dep)]
             ELSE [st EXCEPT !.waiting[dep] = s]

\* promote_step putting the promoted key at the bottom of the stack.
promote_step_prepends(dep, key, st) ==
    IF dep \notin DOMAIN st.waiting \/ key \notin st.waiting[dep]
    THEN Raise(st, "KeyError")
    ELSE LET s == st.waiting[dep] \ {key}
         IN  IF s = {}
             THEN [st EXCEPT !.waiting = Del(st.waiting, dep),
                             !.ready_set = st.ready_set \cup {dep},
                             !.ready = <<dep>> \o st.ready]
             ELSE [st EXCEPT !.waiting[dep] = s]

\* One iteration of the loop over sorted(state['dependents'][key]).
promote_step(dep, key, st) ==
    IF dep \notin DOMAIN st.waiting \/ key \notin st.waiting[dep]
    THEN Raise(st, "KeyError")
    ELSE LET s == st.waiting[dep] \ {key}
         IN  IF s = {}
             THEN [st EXCEPT !.waiting = Del(st.waiting, dep),
                             !.ready_set = st.ready_set \cup {dep},
                             !.ready = Append(st.ready, dep)]
             ELSE [st EXCEPT !.waiting[dep] = s]

\* promote_loop going through the dependents from the greatest sortkey down.
RECURSIVE promote_loop_descending(_, _, _)
promote_loop_descending(deps, key, st) ==
    IF deps = <<>> \/ st.exc # "none" THEN st
    ELSE promote_loop_descending(SubSeq(deps, 1, Len(deps) - 1), key,
                                 promote_step(deps[Len(deps)], key, st))

RECURSIVE promote_loop(_, _, _)
promote_loop(deps, key, st) ==
    IF deps = <<>> \/ st.exc # "none" THEN st
    ELSE promote_loop(Tail(deps), key, promote_step(Head(deps), key, st))

\* evict_step with the test "not s" left out.
evict_step_eager(dep, key, st, res) ==
    IF dep \in DOMAIN st.waiting_data
    THEN IF key \notin st.waiting_data[dep]
         THEN Raise(st, "KeyError")
         ELSE LET s  == st.waiting_data[dep] \ {key}
                  s1 == [st EXCEPT !.waiting_data[dep] = s]
              IN  IF dep \notin res
                  THEN release_data(dep, s1)
                  ELSE s1
    ELSE IF dep \notin res
         THEN release_data(dep, st)
         ELSE st

\* evict_step with the test "dep not in results" left out.
evict_step_ignores_results(dep, key, st, res) ==
    IF dep \in DOMAIN st.waiting_data
    THEN IF key \notin st.waiting_data[dep]
         THEN Raise(st, "KeyError")
         ELSE LET s  == st.waiting_data[dep] \ {key}
                  s1 == [st EXCEPT !.waiting_data[dep] = s]
              IN  IF s = {}
                  THEN release_data(dep, s1)
                  ELSE s1
    ELSE release_data(dep, st)

\* evict_step with the call of release_data left out of the first branch.
evict_step_never_releases(dep, key, st, res) ==
    IF dep \in DOMAIN st.waiting_data
    THEN IF key \notin st.waiting_data[dep]
         THEN Raise(st, "KeyError")
         ELSE [st EXCEPT !.waiting_data[dep] = st.waiting_data[dep] \ {key}]
    ELSE IF dep \notin res
         THEN release_data(dep, st)
         ELSE st

\* evict_step with "s.remove(key)" left out.
evict_step_no_remove(dep, key, st, res) ==
    IF dep \in DOMAIN st.waiting_data
    THEN IF key \notin st.waiting_data[dep]
         THEN Raise(st, "KeyError")
         ELSE LET s == st.waiting_data[dep]
              IN  IF s = {} /\ dep \notin res
                  THEN release_data(dep, st)
                  ELSE st
    ELSE IF dep \notin res
         THEN release_data(dep, st)
         ELSE st

\* One iteration of the loop over state['dependencies'][key].
evict_step(dep, key, st, res) ==
    IF dep \in DOMAIN st.waiting_data
    THEN IF key \notin st.waiting_data[dep]
         THEN Raise(st, "KeyError")
         ELSE LET s  == st.waiting_data[dep] \ {key}
                  s1 == [st EXCEPT !.waiting_data[dep] = s]
              IN  IF s = {} /\ dep \notin res
                  THEN release_data(dep, s1)
                  ELSE s1
    ELSE IF dep \notin res
         THEN release_data(dep, st)
         ELSE st

\* The iterations touch disjoint entries (those of dep), so the iteration
\* order of the set does not change the outcome unless one of them raises.
RECURSIVE evict_loop(_, _, _, _)
evict_loop(deps, key, st, res) ==
    IF deps = <<>> \/ st.exc # "none" THEN st
    ELSE evict_loop(Tail(deps), key, evict_step(Head(deps), key, st, res), res)

\* finish_task with "state['running'].remove(key)" left out.
finish_task_keeps_running(key, st, res) ==
    LET s1 == [st EXCEPT !.ready_set = st.ready_set \ {key}]
        s2 == promote_loop(sorted(s1.dependents[key]), key, s1)
        s3 == evict_loop(sorted(s2.dependencies[key]), key, s2, res)
    IN  IF s3.exc # "none" THEN s3
        ELSE [s3 EXCEPT !.finished = s3.finished \cup {key}]

finish_task(key, st, res) ==
    LET s1 == [st EXCEPT !.ready_set = st.ready_set \ {key}]
        s2 == promote_loop(sorted(s1.dependents[key]), key, s1)
        s3 == evict_loop(sorted(s2.dependencies[key]), key, s2, res)
    IN  IF s3.exc # "none" THEN s3
        ELSE IF key \notin s3.running
             THEN Raise([s3 EXCEPT !.finished = s3.finished \cup {key}],
                        "KeyError")
             ELSE [s3 EXCEPT !.finished = s3.finished \cup {key},
                             !.running = s3.running \ {key}]

----------------------------------------------------------------------------
\* get_async

\* fire_task reading the top of ready without popping it.
fire_task_peek(st, d) ==
    LET key == st.ready[Len(st.ready)]
    IN  IF key \notin st.ready_set
        THEN Raise(st, "KeyError")
        ELSE LET s2 == [st EXCEPT !.ready_set = st.ready_set \ {key},
                                  !.running = st.running \cup {key}]
             IN  IF get_dependencies(d, key) \subseteq DOMAIN s2.cache
                 THEN s2
                 ELSE Raise(s2, "KeyError")

\* fire_task, up to the call of apply_async.
fire_task(st, d) ==
    LET key == st.ready[Len(st.ready)]
        s1  == [st EXCEPT !.ready = SubSeq(st.ready, 1, Len(st.ready) - 1)]
    IN  IF key \notin s1.ready_set
        THEN Raise(s1, "KeyError")
        ELSE LET s2 == [s1 EXCEPT !.ready_set = s1.ready_set \ {key},
                                  !.running = s1.running \cup {key}]
             IN  IF get_dependencies(d, key) \subseteq DOMAIN s2.cache
                 THEN s2
                 ELSE Raise(s2, "KeyError")

\* The key fire_task pops.
fired_key(st) == st.ready[Len(st.ready)]

\* The loop guard with <= in place of <.
MayFire_off_by_one ==
    state.ready # <<>> /\ Cardinality(state.running) <= num_workers

MayFire == state.ready # <<>> /\ Cardinality(state.running) < num_workers

\* The loop condition without the test of state['running'].
MainCond_ignores_running == state.waiting # <<>> \/ state.ready # <<>>

MainCond == state.waiting # <<>> \/ state.ready # <<>> \/ state.running # {}

Init ==
    /\ dsk \in UNION {[K -> Entries] : K \in SUBSET Keys}
    /\ results \in SUBSET DOMAIN dsk
    /\ num_workers \in 0..MaxWorkers
    /\ rerun_exceptions_locally \in BOOLEAN
    /\ state = start_state_from_dask(dsk)
    /\ queue = <<>>
    /\ pool = {}
    /\ submitted = <<>>
    /\ pc = "start"
    /\ readied_at = [k \in state.ready_set |-> 0]
    /\ fired_at = <<>>

\* The history variables record, in every step, the keys that the step puts
\* on state['ready'] and the keys it moves to state['running'].
Stamp(at, new, now) ==
    [k \in DOMAIN at \cup new |-> IF k \in DOMAIN at THEN at[k] ELSE now]

Observe ==
    /\ readied_at' = Stamp(readied_at, state'.ready_set \ state.ready_set,
                           Cardinality(state'.finished))
    /\ fired_at' = Stamp(fired_at, state'.running \ state.running,
                         Cardinality(state.finished))

\* CheckAccessible with the test of state['waiting'] left out.
CheckAccessible_ignores_waiting ==
    /\ pc = "start"
    /\ pc' = IF state.ready = <<>> THEN "ValueError" ELSE "seed"
    /\ UNCHANGED <<dsk, results, num_workers, rerun_exceptions_locally,
                   state, queue, pool, submitted>>
    /\ Observe

\* if state['waiting'] and not state['ready']: raise ValueError
CheckAccessible ==
    /\ pc = "start"
    /\ pc' = IF state.waiting # <<>> /\ state.ready = <<>>
             THEN "ValueError" ELSE "seed"
    /\ UNCHANGED <<dsk, results, num_workers, rerun_exceptions_locally,
                   state, queue, pool, submitted>>
    /\ Observe

Fire(here) ==
    /\ MayFire
    /\ LET s == fire_task(state, dsk)
       IN  /\ state' = s
           /\ IF s.exc = "none"
              THEN /\ pool' = pool \cup {fired_key(state)}
                   /\ submitted' = Append(submitted, fired_key(state))
                   /\ pc' = here
              ELSE /\ pc' = "raised"
                   /\ UNCHANGED <<pool, submitted>>
    /\ UNCHANGED <<dsk, results, num_workers, rerun_exceptions_locally, queue>>
    /\ Observe

\* Seed initial tasks into the thread pool.
SeedFire == pc = "seed" /\ Fire("seed")

SeedDone ==
    /\ pc = "seed"
    /\ ~MayFire
    /\ pc' = "main"
    /\ UNCHANGED <<dsk, results, num_workers, rerun_exceptions_locally,
                   state, queue, pool, submitted>>
    /\ Observe

\* cache[key] = res; finish_task(...): the coordinator's handling of a record.
Complete(key, value) ==
    LET s == finish_task(key, [state EXCEPT !.cache = Put(state.cache, key, value)],
                         results)
    IN  /\ state' = s
        /\ pc' = IF s.exc = "none" THEN "refill" ELSE "raised"

\* Main loop: take a record whose result is a value.
MainTake ==
    /\ pc = "main"
    /\ MainCond
    /\ queue # <<>>
    /\ Head(queue).res = "ok"
    /\ queue' = Tail(queue)
    /\ Complete(Head(queue).key, "result")
    /\ UNCHANGED <<dsk, results, num_workers, rerun_exceptions_locally,
                   pool, submitted>>
    /\ Observe

\* Main loop: take a record whose result is an exception, default mode.
MainTakeError ==
    /\ pc = "main"
    /\ MainCond
    /\ queue # <<>>
    /\ Head(queue).res = "err"
    /\ ~rerun_exceptions_locally
    /\ queue' = Tail(queue)
    /\ pc' = "raised"
    /\ UNCHANGED <<dsk, results, num_workers, rerun_exceptions_locally,
                   state, pool, submitted>>
    /\ Observe

\* Main loop: take a record whose result is an exception and re-execute the
\* task locally; the local execution raises, or returns and the loop body
\* goes on with res the exception object.
MainTakeRerun ==
    /\ pc = "main"
    /\ MainCond
    /\ queue # <<>>
    /\ Head(queue).res = "err"
    /\ rerun_exceptions_locally
    /\ queue' = Tail(queue)
    /\ IF get_dependencies(dsk, Head(queue).key) \subseteq DOMAIN state.cache
       THEN \E raises \in BOOLEAN :
               IF raises
               THEN pc' = "raised" /\ state' = state
               ELSE Complete(Head(queue).key, "error")
       ELSE pc' = "raised" /\ state' = Raise(state, "KeyError")
    /\ UNCHANGED <<dsk, results, num_workers, rerun_exceptions_locally,
                   pool, submitted>>
    /\ Observe

RefillFire == pc = "refill" /\ Fire("refill")

RefillDone ==
    /\ pc = "refill"
    /\ ~MayFire
    /\ pc' = "main"
    /\ UNCHANGED <<dsk, results, num_workers, rerun_exceptions_locally,
                   state, queue, pool, submitted>>
    /\ Observe

MainExit ==
    /\ pc = "main"
    /\ ~MainCond
    /\ pc' = "drain"
    /\ UNCHANGED <<dsk, results, num_workers, rerun_exceptions_locally,
                   state, queue, pool, submitted>>
    /\ Observe

\* Final reporting loop, then return nested_get(result, state['cache']).
Drain ==
    /\ pc = "drain"
    /\ IF state.running # {} \/ queue # <<>>
       THEN /\ queue # <<>>
            /\ queue' = Tail(queue)
            /\ pc' = "drain"
            /\ state' = state
       ELSE /\ queue' = queue
            /\ IF results \subseteq DOMAIN state.cache
               THEN pc' = "done" /\ state' = state
               ELSE pc' = "raised" /\ state' = Raise(state, "KeyError")
    /\ UNCHANGED <<dsk, results, num_workers, rerun_exceptions_locally,
                   pool, submitted>>
    /\ Observe

\* execute_task that may end without putting a record on the queue.
execute_task_may_lose_record(key) ==
    /\ key \in pool
    /\ pool' = pool \ {key}
    /\ \E res \in {"ok", "err", "lost"} :
          queue' = IF res = "lost" THEN queue
                   ELSE Append(queue, [key |-> key, res |-> res])
    /\ UNCHANGED <<dsk, results, num_workers, rerun_exceptions_locally,
                   state, submitted, pc>>
    /\ Observe

\* A worker runs execute_task for a submitted key and puts its record.
execute_task(key) ==
    /\ key \in pool
    /\ pool' = pool \ {key}
    /\ \E res \in {"ok", "err"} :
          queue' = Append(queue, [key |-> key, res |-> res])
    /\ UNCHANGED <<dsk, results, num_workers, rerun_exceptions_locally,
                   state, submitted, pc>>
    /\ Observe

Worker == \E key \in Keys : execute_task(key)

Coordinator ==
    \/ CheckAccessible
    \/ SeedFire
    \/ SeedDone
    \/ MainTake
    \/ MainTakeError
    \/ MainTakeRerun
    \/ RefillFire
    \/ RefillDone
    \/ MainExit
    \/ Drain

Next == Coordinator \/ Worker

Spec == Init /\ [][Next]_vars

\* The coordinator is inside queue.get(), in the main loop or in the final
\* reporting loop.
AtQueueGet ==
    \/ pc = "main" /\ MainCond
    \/ pc = "drain" /\ (state.running # {} \/ queue # <<>>)

\* queue.get() never returns: the queue is empty and no submitted task is
\* left to put a record on it.
BlockedForever == AtQueueGet /\ queue = <<>> /\ pool = {}

----------------------------------------------------------------------------
\* Vocabulary of the properties.

Literals == data_keys(dsk)

NonLiterals == DOMAIN dsk \ Literals

\* The graph has no dependency cycle: some ranking puts every key above all of
\* its dependencies.
Acyclic ==
    \E rank \in [Keys -> 1..NumKeys] :
        \A k \in DOMAIN dsk :
            \A r \in get_dependencies(dsk, k) : rank[r] < rank[k]

\* get_async has returned or raised.
Returned == pc \in {"done", "raised", "ValueError"}

\* An upper bound on the number of steps left in the run: four for a task not
\* yet fired (fire, execute, take, end of refill), three for one executing,
\* two for a record on the queue, plus the steps the coordinator has left
\* outside the handling of tasks.
StepsLeft ==
    4 * Cardinality(DOMAIN state.waiting \cup state.ready_set)
      + 3 * Cardinality(pool)
      + 2 * Len(queue)
      + CASE pc = "start" -> 5
          [] pc \in {"seed", "refill"} -> 4
          [] pc = "main" -> 3
          [] pc = "drain" -> 2
          [] OTHER -> 0

Disjoint(A, B) == A \cap B = {}

Occurrences(s, x) == Cardinality({i \in DOMAIN s : s[i] = x})

\* Some worker has reported an exception for a task.
TaskFailed == \E i \in DOMAIN queue : queue[i].res = "err"

\* waiting_data[d], an absent entry read as the empty set.
WaitingData(d) ==
    IF d \in DOMAIN state.waiting_data THEN state.waiting_data[d] ELSE {}

----------------------------------------------------------------------------
\* C1: every key is in exactly one of the literal keys, the keys of waiting,
\* ready-set, running and finished: the five sets are pairwise disjoint and
\* their union is the whole key set.
C1_Partition ==
    LET W == DOMAIN state.waiting
        P == <<Literals, W, state.ready_set, state.running, state.finished>>
    IN  /\ UNION {P[i] : i \in 1..5} = DOMAIN dsk
        /\ \A i, j \in 1..5 : i < j => Disjoint(P[i], P[j])

\* A completion has been accounted for while one task runs and one waits.
C1_Witness ==
    /\ pc = "refill"
    /\ state.finished # {}
    /\ state.running # {}
    /\ DOMAIN state.waiting # {}

\* C2: every key is passed to apply_async at most once, and no key is pushed
\* onto ready a second time: ready holds no key twice and no key that has
\* already been popped and submitted.
C2_DispatchedAtMostOnce ==
    /\ \A k \in Keys : Occurrences(submitted, k) <= 1
    /\ \A k \in Keys : Occurrences(state.ready, k) <= 1
    /\ Disjoint(Range(state.ready), Range(submitted))

\* Every key of the graph has been dispatched, one of them after a completion.
C2_Witness ==
    /\ Range(submitted) = Keys
    /\ state.finished # {}
    /\ state.exc = "none"

\* C3: for an acyclic graph and num_workers >= 1 the main loop exits unless a
\* task fails: the coordinator never waits on a queue that stays empty, nothing
\* but a failed task makes get_async raise, every step brings the run closer
\* to its end, and the main loop exits with waiting, ready and running empty
\* and finished equal to the set of non-literal keys.
C3_MainLoopExits ==
    /\ [](Acyclic /\ num_workers >= 1 =>
            /\ ~BlockedForever
            /\ pc # "ValueError"
            /\ state.exc = "none"
            /\ pc \in {"drain", "done"} =>
                  /\ state.waiting = <<>>
                  /\ state.ready = <<>>
                  /\ state.running = {}
                  /\ state.finished = NonLiterals)
    /\ [][StepsLeft' < StepsLeft]_vars

\* The main loop has exited after running three tasks, none of which failed.
C3_Witness ==
    /\ pc = "drain"
    /\ Acyclic
    /\ num_workers >= 1
    /\ state.finished = Keys
    /\ results = Keys
    /\ \A k \in DOMAIN state.cache : state.cache[k] = "result"

\* C4: the number of running keys never exceeds num_workers.
C4_RunningBounded == Cardinality(state.running) <= num_workers

\* Two workers are busy and a ready task is held back by the bound.
C4_Witness ==
    /\ num_workers = 2
    /\ Cardinality(state.running) = num_workers
    /\ state.ready # <<>>

\* C5: every key in ready-set has all of its dependencies in cache, and
\* fire_task never looks up a key that is missing from cache.
C5_ReadyInputsCached ==
    /\ \A k \in state.ready_set : state.dependencies[k] \subseteq DOMAIN state.cache
    /\ state.exc # "KeyError"

\* A ready task with a dependency sits on the stack after another task has
\* completed and data has been released.
C5_Witness ==
    /\ \E k \in state.ready_set : state.dependencies[k] # {}
    /\ state.finished # {}
    /\ state.released # {}

\* C6: every released key has all of its dependents in finished, and the
\* assertion of release_data never fails.
C6_ReleasedHasNoConsumers ==
    /\ \A d \in state.released : state.dependents[d] \subseteq state.finished
    /\ state.exc # "AssertionError"

\* A key with two dependents has been released.
C6_Witness ==
    \E d \in state.released : Cardinality(state.dependents[d]) = 2

\* C7: a requested output is never released and, once its value is in cache
\* (a literal from the start, a task from its completion), stays in cache;
\* when the main loop has exited every requested output is in cache.
C7_OutputsKept ==
    /\ Disjoint(results, state.released)
    /\ \A r \in results :
          r \in Literals \cup state.finished => r \in DOMAIN state.cache
    /\ pc \in {"drain", "done"} => results \subseteq DOMAIN state.cache

\* The run is over and a requested output whose dependents have all finished
\* is still in cache, while another key has been released.
C7_Witness ==
    /\ pc = "done"
    /\ \E r \in results :
          /\ state.dependents[r] # {}
          /\ WaitingData(r) = {}
          /\ r \in DOMAIN state.cache
    /\ state.released # {}

\* C8 as stated: every key in cache that is not a requested output has a
\* non-empty waiting_data entry.
C8_Original ==
    \A d \in DOMAIN state.cache \ results :
        d \in DOMAIN state.waiting_data /\ state.waiting_data[d] # {}

\* C8, amended: every key in cache that is not a requested output and has at
\* least one dependent has a non-empty waiting_data entry.
C8_CachedIsNeeded ==
    \A d \in DOMAIN state.cache \ results :
        state.dependents[d] # {} =>
            d \in DOMAIN state.waiting_data /\ state.waiting_data[d] # {}

\* One consumer of a cached, not requested key has finished and another has
\* not.
C8_Witness ==
    /\ \E d \in DOMAIN state.cache \ results :
          /\ state.dependents[d] \cap state.finished # {}
          /\ state.dependents[d] \ state.finished # {}
    /\ state.exc = "none"

\* C9: for every key d in cache that is not a requested output, waiting_data[d]
\* (an absent entry read as the empty set) is the set of dependents of d that
\* are not in finished.
C9_WaitingDataIsPending ==
    \A d \in DOMAIN state.cache \ results :
        WaitingData(d) = state.dependents[d] \ state.finished

\* A cached, not requested key has lost one of its two consumers.
C9_Witness ==
    \E d \in DOMAIN state.cache \ results :
        /\ Cardinality(state.dependents[d]) = 2
        /\ Cardinality(WaitingData(d)) = 1

\* C10: a non-literal key is a key of waiting exactly when some dependency of
\* it is neither in cache nor released, and waiting[k] is the set of those
\* dependencies.
C10_WaitingIsMissingInputs ==
    \A k \in NonLiterals :
        LET missing == state.dependencies[k] \ (DOMAIN state.cache \cup state.released)
        IN  /\ k \in DOMAIN state.waiting <=> missing # {}
            /\ k \in DOMAIN state.waiting => state.waiting[k] = missing

\* A task with two task dependencies has left waiting for ready now that
\* both of them have finished.
C10_Witness ==
    \E k \in state.ready_set :
        Cardinality(state.dependencies[k] \cap state.finished) = 2

----------------------------------------------------------------------------
\* The coordinator takes from the queue a record whose result is an error.
TakesError ==
    /\ pc = "main"
    /\ MainCond
    /\ queue # <<>>
    /\ Head(queue).res = "err"
    /\ queue' = Tail(queue)

\* C11: when the coordinator takes a record whose result is an error, in
\* either mode, the run aborts: get_async raises, the result of the failed key
\* is not written to cache, the key is not added to finished and no task is
\* dispatched.
C11_FailureAborts ==
    [][TakesError =>
          /\ pc' = "raised"
          /\ Head(queue).key \notin DOMAIN state'.cache
          /\ Head(queue).key \notin state'.finished
          /\ submitted' = submitted]_vars

----------------------------------------------------------------------------
\* The graph has exactly one non-literal key, a task, and every name that task
\* mentions is absent from the graph.
OnlyTaskRefersToAbsentKey ==
    \E t \in DOMAIN dsk :
        /\ NonLiterals = {t}
        /\ istask(dsk[t])
        /\ dsk[t].refs # {}
        /\ dsk[t].refs \cap DOMAIN dsk = {}

\* C12 as stated: a graph whose only task refers to a key that is not a key of
\* the graph is rejected with the ValueError before any task is dispatched.
C12_Original ==
    (OnlyTaskRefersToAbsentKey /\ pc # "start") =>
        (pc = "ValueError" /\ submitted = <<>>)

\* C12, amended: a graph whose only task refers to a key that is not a key of
\* the graph is not rejected, the task is ready in the start state; get_async
\* raises the ValueError only before any task is dispatched, and only when
\* every non-literal key of the graph waits for another non-literal key.
C12_Unreachable ==
    /\ OnlyTaskRefersToAbsentKey =>
          (pc # "ValueError" /\ (pc = "start" => state.ready_set = NonLiterals))
    /\ pc = "ValueError" =>
          /\ submitted = <<>>
          /\ NonLiterals # {}
          /\ \A k \in NonLiterals :
                get_dependencies(dsk, k) \cap NonLiterals # {}

\* The only task of the graph refers to an absent key and has been submitted.
C12_Witness ==
    /\ OnlyTaskRefersToAbsentKey
    /\ submitted # <<>>

----------------------------------------------------------------------------
\* Order of dispatch.

Dispatched == Range(submitted)

\* The place of a dispatched key in the sequence of apply_async calls.
Pos(k) == CHOOSE i \in DOMAIN submitted : submitted[i] = k

\* a and b became ready in the same step: both by start_state_from_dask, or
\* both promoted by the same finish_task.
ReadiedTogether(a, b) ==
    /\ a \in DOMAIN readied_at
    /\ b \in DOMAIN readied_at
    /\ a # b
    /\ readied_at[a] = readied_at[b]

\* C13 as stated: of two tasks that became ready in the same step, the one
\* with the smaller priority value is dispatched earlier.
C13_Original ==
    \A a, b \in Dispatched :
        (ReadiedTogether(a, b) /\ keyorder(a) < keyorder(b)) => Pos(a) < Pos(b)

\* C13, amended: of two tasks that became ready in the same step, the one with
\* the greater priority value is dispatched earlier: when the smaller one has
\* been dispatched, the greater one was dispatched before it.
C13_GreaterFirst ==
    \A a \in Dispatched : \A b \in DOMAIN readied_at :
        (ReadiedTogether(a, b) /\ keyorder(a) < keyorder(b)) =>
            (b \in Dispatched /\ Pos(b) < Pos(a))

\* Two tasks of the initial ready set and two tasks promoted by one finish_task
\* can both be dispatched; here, two promoted by the first finish_task.
C13_Witness ==
    \E a, b \in Dispatched :
        /\ ReadiedTogether(a, b)
        /\ readied_at[a] = 1
        /\ keyorder(a) < keyorder(b)
        /\ Pos(b) < Pos(a)

----------------------------------------------------------------------------
\* A step in which finish_task runs to its end.
FinishStep ==
    /\ state'.finished # state.finished
    /\ state'.exc = "none"

\* The keys a step puts on state['ready'].
Promoted == state'.ready_set \ state.ready_set

\* In a FinishStep, the promoted keys are appended to ready in ascending
\* sortkey order, above everything that was on the list.
AppendsAscending ==
    LET old == Len(state.ready)
        new == Len(state'.ready)
    IN  /\ new = old + Cardinality(Promoted)
        /\ \A i \in 1..old : state'.ready[i] = state.ready[i]
        /\ \A i \in (old + 1)..new : state'.ready[i] \in Promoted
        /\ \A i, j \in (old + 1)..new :
              i < j => keyorder(state'.ready[i]) < keyorder(state'.ready[j])

\* Of two keys promoted by one finish_task, if the smaller was dispatched
\* before the next completion was handled, then so was the greater, earlier,
\* and only keys of the same batch were dispatched between them.
PoppedDescending ==
    \A a \in Dispatched : \A b \in DOMAIN readied_at :
        (/\ ReadiedTogether(a, b)
         /\ readied_at[a] >= 1
         /\ fired_at[a] = readied_at[a]
         /\ keyorder(a) < keyorder(b))
        => /\ b \in Dispatched
           /\ fired_at[b] = readied_at[b]
           /\ Pos(b) < Pos(a)
           /\ \A c \in Dispatched :
                 (Pos(b) < Pos(c) /\ Pos(c) < Pos(a)) =>
                     readied_at[c] = readied_at[a]

\* C14: the dependents promoted by one finish_task are appended to ready in
\* ascending sortkey order, and those dispatched with no completion handled in
\* between are dispatched in descending sortkey order.
C14_AscendingPushDescendingPop ==
    /\ [][FinishStep => AppendsAscending]_vars
    /\ []PoppedDescending

\* One finish_task promoted two keys and both were dispatched before the next
\* completion was handled.
C14_Witness ==
    \E a, b \in Dispatched :
        /\ ReadiedTogether(a, b)
        /\ readied_at[a] >= 1
        /\ fired_at[a] = readied_at[a]
        /\ fired_at[b] = readied_at[b]
        /\ keyorder(a) < keyorder(b)

----------------------------------------------------------------------------
\* a was on the ready stack when a later finish_task put b on it.
OnStackWhenReadied(a, b) ==
    /\ a \in DOMAIN readied_at
    /\ b \in DOMAIN readied_at
    /\ readied_at[a] < readied_at[b]
    /\ a \in DOMAIN fired_at => fired_at[a] >= readied_at[b]

----------------------------------------------------------------------------
\* The keys of the graph whose entry mentions d.
DependentsOf(d) == {k \in DOMAIN dsk : d \in get_dependencies(dsk, k)}

\* The dependencies of k that are not literal keys.
TaskInputs(k) == get_dependencies(dsk, k) \cap NonLiterals

\* C16: the state start_state_from_dask returns, for every graph: cache holds
\* exactly the literal keys; waiting maps each non-literal key that has a
\* non-literal dependency to exactly its non-literal dependencies; ready-set
\* is the non-literal keys whose dependencies are all literals; ready is
\* ready-set in ascending priority; waiting_data[d] is dependents[d] for
\* exactly the keys with a dependent; running, finished, released are empty.
C16_StartState ==
    pc = "start" =>
        /\ DOMAIN state.cache = Literals
        /\ DOMAIN state.waiting = {k \in NonLiterals : TaskInputs(k) # {}}
        /\ \A k \in DOMAIN state.waiting : state.waiting[k] = TaskInputs(k)
        /\ state.ready_set =
              {k \in NonLiterals : get_dependencies(dsk, k) \subseteq Literals}
        /\ Range(state.ready) = state.ready_set
        /\ Len(state.ready) = Cardinality(state.ready_set)
        /\ \A i, j \in DOMAIN state.ready :
              i < j => keyorder(state.ready[i]) < keyorder(state.ready[j])
        /\ DOMAIN state.waiting_data = {d \in DOMAIN dsk : DependentsOf(d) # {}}
        /\ \A d \in DOMAIN state.waiting_data :
              /\ state.waiting_data[d] = DependentsOf(d)
              /\ state.waiting_data[d] = state.dependents[d]
        /\ state.running = {}
        /\ state.finished = {}
        /\ state.released = {}

\* A start state with a literal in cache, a ready task, a waiting task.
C16_Witness ==
    /\ pc = "start"
    /\ state.cache # <<>>
    /\ state.ready # <<>>
    /\ state.waiting # <<>>
    /\ \E d \in DOMAIN state.cache : d \in DOMAIN state.waiting_data

----------------------------------------------------------------------------
\* How far a task has come: 0 waiting, 1 ready, 2 running, 3 finished.
Stage(st, k) ==
    IF k \in st.finished THEN 3
    ELSE IF k \in st.running THEN 2
    ELSE IF k \in st.ready_set THEN 1
    ELSE 0

\* How far the value of a key has come: 0 absent, 1 in cache, 2 released.
ValueStage(st, k) ==
    IF k \in st.released THEN 2
    ELSE IF k \in DOMAIN st.cache THEN 1
    ELSE 0

\* C17: in every step each non-literal key stays where it is or moves one
\* place forward in waiting -> ready -> running -> finished, and the value of
\* each key stays or moves one place forward in absent -> in cache ->
\* released; a released key is never in cache again, a finished key stays
\* finished, and a requested output is never released.
C17_ForwardOnly ==
    /\ [][/\ \A k \in NonLiterals :
                /\ Stage(state', k) >= Stage(state, k)
                /\ Stage(state', k) <= Stage(state, k) + 1
          /\ \A k \in DOMAIN dsk :
                /\ ValueStage(state', k) >= ValueStage(state, k)
                /\ ValueStage(state', k) <= ValueStage(state, k) + 1
          /\ state.finished \subseteq state'.finished
          /\ state.released \subseteq state'.released]_vars
    /\ [](/\ Disjoint(state.released, DOMAIN state.cache)
          /\ Disjoint(state.released, results))

\* A task that started in waiting has finished, and the value of a task has
\* been released.
C17_Witness ==
    /\ \E k \in state.finished : TaskInputs(k) # {}
    /\ state.released \cap NonLiterals # {}
    /\ state.exc = "none"

----------------------------------------------------------------------------
\* C18: for an acyclic graph and num_workers >= 1, the state at the exit of
\* the main loop is a function of the graph and the requested outputs alone,
\* whatever the number of workers and the arrival order of the records:
\* finished is all non-literal keys, released is the non-requested keys that
\* have a dependent, and cache holds the requested outputs and the keys with
\* no dependent.
C18_SameFinalState ==
    (Acyclic /\ num_workers >= 1 /\ pc = "drain") =>
        /\ state.finished = NonLiterals
        /\ state.released =
              {k \in DOMAIN dsk \ results : DependentsOf(k) # {}}
        /\ DOMAIN state.cache =
              results \cup {k \in DOMAIN dsk : DependentsOf(k) = {}}

\* A failure-free run of two workers on a graph of three tasks, two of which
\* ran concurrently, has left the main loop with a key released.
C18_Witness ==
    /\ Acyclic
    /\ num_workers = 2
    /\ pc = "drain"
    /\ state.finished = Keys
    /\ state.released # {}
    /\ ~rerun_exceptions_locally
    /\ \A k \in DOMAIN state.cache : state.cache[k] = "result"
    /\ \E a, b \in Keys : a # b /\ fired_at[a] = fired_at[b]

----------------------------------------------------------------------------
\* The dispatched keys whose completion record the coordinator has not taken:
\* still executing, or with a record on the queue.
Unconsumed == pool \cup {queue[i].key : i \in DOMAIN queue}

----------------------------------------------------------------------------
\* The coordinator takes the record of a key, writes its result to cache and
\* calls finish_task for it.
CallsFinishTask ==
    /\ pc = "main"
    /\ queue # <<>>
    /\ queue' = Tail(queue)
    /\ Head(queue).key \notin DOMAIN state.cache
    /\ Head(queue).key \in DOMAIN state'.cache \cup state'.released

\* C20: when finish_task is called for a key, every dependency d of the key
\* has an entry in waiting_data that still holds the key, so the branch for a
\* dependency without an entry is not taken; d has not been passed to
\* release_data before, and the call raises nothing, so no key is passed to
\* release_data twice.
C20_NoFallbackRelease ==
    [][CallsFinishTask =>
          /\ \A d \in get_dependencies(dsk, Head(queue).key) :
                /\ d \in DOMAIN state.waiting_data
                /\ Head(queue).key \in state.waiting_data[d]
                /\ d \notin state.released
          /\ state'.exc = "none"]_vars

\* finish_task has released a dependency of the finishing key, one that had
\* an entry in waiting_data.
C20_Witness ==
    /\ pc = "refill"
    /\ \E d \in state.released :
          /\ d \notin DOMAIN state.waiting_data
          /\ \E k \in state.finished : d \in get_dependencies(dsk, k)

====
